---- MODULE Spec2Model ----
(***************************************************************************)
(* Model of src/main.py: the coordinate utilities (Coords), the per-cell   *)
(* record (Cell) and the search engine (Maze.__init__ and                  *)
(* Maze.a_star_pathfind).                                                  *)
(*                                                                         *)
(* Floating point values (f, g, h and the distances) are modelled in fixed *)
(* point with three decimals: the float x is the integer floor(1000 * x).  *)
(* An orthogonal step costs 1000, a diagonal step 1414, and the sentinel   *)
(* -1 of Cell(-1, -1, -1, ...) is -1000.                                   *)
(***************************************************************************)
EXTENDS Integers, Sequences, FiniteSets

VARIABLES w, h, start, goal, maze, pc, open_list, key, current, nbrs,
          cell, path, collected_coins

vars == <<w, h, start, goal, maze, pc, open_list, key, current, nbrs,
          cell, path, collected_coins>>

(* Bounds of the model: grids of at most MaxSide rows and columns and at   *)
(* most MaxCells cells, of which at most MaxMarked are neither the start,  *)
(* the goal nor an empty cell.                                             *)
MaxSide == 3

MaxCells == 9

MaxMarked == 2

(* The parent of a cell without parent (Python's None).                    *)
None == <<-1, -1>>

(* The characters str.isnumeric accepts among the terrain tokens.          *)
Digits == {"0", "1", "2", "3", "4", "5", "6", "7", "8", "9"}

(* ----------------------------- Coords ---------------------------------- *)

Abs(x) == IF x < 0 THEN -x ELSE x

(* The float n as a fixed point value.                                     *)
Fixed(n) == n * 1000

RECURSIVE BSearch(_, _, _)
BSearch(n, lo, hi) ==
    IF lo >= hi THEN lo
    ELSE LET mid == (lo + hi + 1) \div 2
         IN  IF mid * mid <= n THEN BSearch(n, mid, hi)
                               ELSE BSearch(n, lo, mid - 1)

(* floor(1000 * sqrt(d2)): pow(d2, 1/2) in fixed point.                    *)
SqrtFixed(d2, upper) == BSearch(d2 * 1000000, 0, Fixed(upper))

distance(i1, j1, i2, j2) ==
    SqrtFixed((i1 - i2) * (i1 - i2) + (j1 - j2) * (j1 - j2),
              Abs(i1 - i2) + Abs(j1 - j2))

is_valid(i, j, ww, hh) == 0 <= i /\ i < hh /\ 0 <= j /\ j < ww

(* The candidate list with (i-1, j-1) written twice and (i+1, j-1) left    *)
(* out.                                                                    *)
possible_neighbors_dup(i, j) ==
    << <<i+1, j>>, <<i+1, j+1>>,
       <<i-1, j>>, <<i-1, j-1>>,
       <<i, j+1>>, <<i-1, j-1>>,
       <<i, j-1>>, <<i-1, j+1>> >>

possible_neighbors(i, j) ==
    << <<i+1, j>>, <<i+1, j+1>>,
       <<i-1, j>>, <<i-1, j-1>>,
       <<i, j+1>>, <<i+1, j-1>>,
       <<i, j-1>>, <<i-1, j+1>> >>

RECURSIVE Filter(_, _, _)
Filter(s, ww, hh) ==
    IF s = <<>> THEN <<>>
    ELSE IF is_valid(Head(s)[1], Head(s)[2], ww, hh)
         THEN <<Head(s)>> \o Filter(Tail(s), ww, hh)
         ELSE Filter(Tail(s), ww, hh)

neighbors(i, j, ww, hh) == Filter(possible_neighbors(i, j), ww, hh)

(* ------------------------------ Cell ----------------------------------- *)

(* Cell with the default of is_open changed to False.                      *)
CellClosed(f, g, hv, i, j, v, parent_cell) ==
    [f |-> f, g |-> g, h |-> hv, i |-> i, j |-> j, v |-> v,
     parent |-> parent_cell, is_visited |-> FALSE, is_open |-> FALSE]

(* Cell(f, g, h, i, j, v, parent_cell): is_visited and is_open take their  *)
(* default values, False and True.                                         *)
Cell(f, g, hv, i, j, v, parent_cell) ==
    [f |-> f, g |-> g, h |-> hv, i |-> i, j |-> j, v |-> v,
     parent |-> parent_cell, is_visited |-> FALSE, is_open |-> TRUE]

(* ------------------------------ Maze ----------------------------------- *)

indexes(ww, hh) == (0 .. hh - 1) \X (0 .. ww - 1)

(* The cells built with themselves as parent instead of None.              *)
LoadMazeSelfParent(maze_raw, ww, hh) ==
    [p \in indexes(ww, hh) |->
        Cell(Fixed(-1), Fixed(-1), Fixed(-1), p[1], p[2], maze_raw[p], p)]

(* self.maze: one Cell per index, built from the characters of the file.   *)
LoadMaze(maze_raw, ww, hh) ==
    [p \in indexes(ww, hh) |->
        Cell(Fixed(-1), Fixed(-1), Fixed(-1), p[1], p[2], maze_raw[p], None)]

(* The character grids of the model: rectangular, one 'S', one 'G'.        *)
Shapes == {s \in (1 .. MaxSide) \X (1 .. MaxSide) : s[1] * s[2] <= MaxCells}

RawGrid(ww, hh, s, g, walls, coins) ==
    [p \in indexes(ww, hh) |->
        IF p = s THEN "S"
        ELSE IF p = g THEN "G"
        ELSE IF p \in walls THEN "X"
        ELSE IF p \in coins THEN "3"
        ELSE "."]

(* Before the file is read: no grid, no cells.                             *)
Init ==
    /\ h = 0
    /\ w = 0
    /\ start = None
    /\ goal = None
    /\ maze = LoadMaze(<<>>, 0, 0)
    /\ pc = "load"
    /\ open_list = {}
    /\ key = 0
    /\ current = None
    /\ nbrs = <<>>
    /\ cell = None
    /\ path = <<>>
    /\ collected_coins = 0

(* Lines 96-122: the file is read (any grid of the model), the positions   *)
(* of 'S' and 'G' and the width and height are saved, the cells are built. *)
Load ==
    /\ pc = "load"
    /\ \E shape \in Shapes :
         \E s \in indexes(shape[2], shape[1]) :
           \E g \in indexes(shape[2], shape[1]) \ {s} :
             \E marked \in SUBSET (indexes(shape[2], shape[1]) \ {s, g}) :
               \E coins \in SUBSET marked :
                 /\ Cardinality(marked) <= MaxMarked
                 /\ h' = shape[1]
                 /\ w' = shape[2]
                 /\ start' = s
                 /\ goal' = g
                 /\ maze' = LoadMaze(RawGrid(shape[2], shape[1], s, g,
                                             marked \ coins, coins),
                                     shape[2], shape[1])
    /\ pc' = "call"
    /\ UNCHANGED <<open_list, key, current, nbrs, cell, path,
                   collected_coins>>

(* heapq on tuples (f, key, cell): keys are unique, so the order of the    *)
(* tuples is decided by (f, key) and the cell is never compared.           *)
TupleLess(a, b) == a[1] < b[1] \/ (a[1] = b[1] /\ a[2] < b[2])

heappush(heap, item) == heap \cup {item}

HeapMin(heap) == CHOOSE a \in heap : \A b \in heap \ {a} : TupleLess(a, b)

(* The least entry read but left in the heap.                              *)
HeapPeek(heap) == heap

heappop(heap) == heap \ {HeapMin(heap)}

(* ------------------------ a_star_pathfind ------------------------------ *)

(* The goal test with the row and the column of the goal exchanged.        *)
IsGoalSwapped(ni, nj) == ni = goal[2] /\ nj = goal[1]

(* The goal test with the comparison of the column left out.               *)
IsGoalRow(ni, nj) == ni = goal[1]

IsGoal(ni, nj) == ni = goal[1] /\ nj = goal[2]

IsWall(n) == maze[n].v = "X"

(* Start without the statement that sets the g of the start cell to 0.     *)
StartNoCost ==
    /\ pc = "call"
    /\ key' = 0
    /\ maze' = [maze EXCEPT ![start].is_open = TRUE]
    /\ open_list' = heappush({}, <<0, 0, start>>)
    /\ pc' = "while"
    /\ UNCHANGED <<w, h, start, goal, current, nbrs, cell, path,
                   collected_coins>>

(* Lines 139-146: the start cell gets g = 0 and is pushed with key 0.      *)
Start ==
    /\ pc = "call"
    /\ key' = 0
    /\ maze' = [maze EXCEPT ![start].g = 0, ![start].is_open = TRUE]
    /\ open_list' = heappush({}, <<0, 0, start>>)
    /\ pc' = "while"
    /\ UNCHANGED <<w, h, start, goal, current, nbrs, cell, path,
                   collected_coins>>

(* Pop without the statement that clears is_open.                          *)
PopStaysOpen ==
    /\ pc = "while"
    /\ open_list # {}
    /\ LET cur == HeapMin(open_list)[3]
       IN  /\ current' = cur
           /\ open_list' = heappop(open_list)
           /\ nbrs' = neighbors(maze[cur].i, maze[cur].j, w, h)
    /\ pc' = "for"
    /\ UNCHANGED <<w, h, start, goal, maze, key, cell, path,
                   collected_coins>>

(* Lines 149-157: pop the entry with the least (f, key); it is no longer   *)
(* open; enumerate its valid neighbours.                                   *)
Pop ==
    /\ pc = "while"
    /\ open_list # {}
    /\ LET cur == HeapMin(open_list)[3]
       IN  /\ current' = cur
           /\ open_list' = heappop(open_list)
           /\ maze' = [maze EXCEPT ![cur].is_open = FALSE]
           /\ nbrs' = neighbors(maze[cur].i, maze[cur].j, w, h)
    /\ pc' = "for"
    /\ UNCHANGED <<w, h, start, goal, key, cell, path, collected_coins>>

(* Lines 185-203: the neighbour n is neither the goal nor a wall.          *)
Evaluate(n) ==
    LET g == maze[current].g
             + distance(n[1], n[2], maze[current].i, maze[current].j)
        hv == distance(n[1], n[2], goal[1], goal[2])
        f == g + hv
    IN  IF maze[n].is_open
        THEN /\ maze' = IF f < maze[n].f
                        THEN [maze EXCEPT ![n].f = f, ![n].parent = current]
                        ELSE maze
             /\ UNCHANGED <<key, open_list>>
        ELSE IF ~ maze[n].is_visited
        THEN /\ maze' = [maze EXCEPT ![n].f = f, ![n].g = g, ![n].h = hv,
                                     ![n].parent = current]
             /\ key' = key + 1
             /\ open_list' = heappush(open_list, <<f, key + 1, n>>)
        ELSE UNCHANGED <<maze, key, open_list>>

(* Lines 157-203: one iteration of the for loop over the neighbours.       *)
Examine ==
    /\ pc = "for"
    /\ nbrs # <<>>
    /\ LET n == Head(nbrs)
       IN  IF IsGoal(n[1], n[2])
           THEN /\ maze' = [maze EXCEPT ![n].parent = current]
                /\ cell' = n
                /\ path' = <<>>
                /\ pc' = "walk"
                /\ UNCHANGED <<key, open_list, nbrs>>
           ELSE IF IsWall(n)
           THEN /\ nbrs' = Tail(nbrs)
                /\ UNCHANGED <<maze, key, open_list, cell, path, pc>>
           ELSE /\ Evaluate(n)
                /\ nbrs' = Tail(nbrs)
                /\ UNCHANGED <<cell, path, pc>>
    /\ UNCHANGED <<w, h, start, goal, current, collected_coins>>

(* Line 206: all neighbours of current are evaluated.                      *)
MarkVisited ==
    /\ pc = "for"
    /\ nbrs = <<>>
    /\ maze' = [maze EXCEPT ![current].is_visited = TRUE]
    /\ pc' = "while"
    /\ UNCHANGED <<w, h, start, goal, open_list, key, current, nbrs, cell,
                   path, collected_coins>>

(* Lines 169-171: one iteration of the walk over the parents.              *)
WalkParent ==
    /\ pc = "walk"
    /\ cell # None
    /\ path' = Append(path, cell)
    /\ cell' = maze[cell].parent
    /\ UNCHANGED <<w, h, start, goal, maze, pc, open_list, key, current,
                   nbrs, collected_coins>>

(* The list returned as it was built, from the goal back to the start.     *)
NotReversed(s) == s

RECURSIVE reversed(_)
reversed(s) == IF s = <<>> THEN <<>> ELSE Append(reversed(Tail(s)), Head(s))

(* Line 172: the walk reached None; return the reversed list.              *)
ReturnPath ==
    /\ pc = "walk"
    /\ cell = None
    /\ path' = reversed(path)
    /\ pc' = "returned"
    /\ UNCHANGED <<w, h, start, goal, maze, open_list, key, current, nbrs,
                   cell, collected_coins>>

(* Line 208: the open list is empty and the goal was not met.              *)
ReturnEmpty ==
    /\ pc = "while"
    /\ open_list = {}
    /\ path' = <<>>
    /\ pc' = "returned"
    /\ UNCHANGED <<w, h, start, goal, maze, open_list, key, current, nbrs,
                   cell, collected_coins>>

isnumeric(v) == v \in Digits

int(v) ==
    CASE v = "0" -> 0 [] v = "1" -> 1 [] v = "2" -> 2 [] v = "3" -> 3
      [] v = "4" -> 4 [] v = "5" -> 5 [] v = "6" -> 6 [] v = "7" -> 7
      [] v = "8" -> 8 [] v = "9" -> 9

(* The sum taken over every cell of the maze instead of the path.          *)
RECURSIVE SumCells(_)
SumCells(S) ==
    IF S = {} THEN 0
    ELSE LET x == CHOOSE y \in S : TRUE
         IN  (IF isnumeric(maze[x].v) THEN int(maze[x].v) ELSE 0)
             + SumCells(S \ {x})

SumCoinsOfMaze(p) == SumCells(DOMAIN maze)

(* sum(int(cell.v) for cell in path if cell.v.isnumeric())                 *)
RECURSIVE SumCoins(_)
SumCoins(p) ==
    IF p = <<>> THEN 0
    ELSE (IF isnumeric(maze[Head(p)].v) THEN int(maze[Head(p)].v) ELSE 0)
         + SumCoins(Tail(p))

(* Lines 125-126: the path is stored and the coins on it are added up.     *)
CollectCoins ==
    /\ pc = "returned"
    /\ collected_coins' = SumCoins(path)
    /\ pc' = "done"
    /\ UNCHANGED <<w, h, start, goal, maze, open_list, key, current, nbrs,
                   cell, path>>

Next ==
    \/ Load
    \/ Start
    \/ Pop
    \/ Examine
    \/ MarkVisited
    \/ WalkParent
    \/ ReturnPath
    \/ ReturnEmpty
    \/ CollectCoins

Spec == Init /\ [][Next]_vars

(* ======================= Properties of the search ====================== *)

Pos == indexes(w, h)

Terrain(p) == maze[p].v

Adjacent(p, q) ==
    /\ p # q
    /\ Abs(p[1] - q[1]) <= 1
    /\ Abs(p[2] - q[2]) <= 1

(* The cells some 8-connected route of non-wall cells joins to the start.  *)
RECURSIVE Closure(_)
Closure(S) ==
    LET T == S \cup {q \in Pos : Terrain(q) # "X"
                                 /\ \E p \in S : Adjacent(p, q)}
    IN  IF T = S THEN S ELSE Closure(T)

Reachable == goal \in Closure({start})

(* 1 per orthogonal step, sqrt(2) per diagonal step, in fixed point.       *)
StepCost(p, q) == IF p[1] = q[1] \/ p[2] = q[2] THEN 1000 ELSE 1414

RECURSIVE PathCost(_)
PathCost(p) ==
    IF Len(p) < 2 THEN 0
    ELSE StepCost(p[1], p[2]) + PathCost(Tail(p))

SetMin(S) == CHOOSE x \in S : \A y \in S : x <= y

(* The least cost of a route of non-wall cells from the start to each cell *)
(* such a route reaches (Bellman-Ford, to the fixed point).                *)
RECURSIVE LeastCosts(_)
LeastCosts(D) ==
    LET dom == DOMAIN D
        new == {q \in Pos \ dom : Terrain(q) # "X"
                                  /\ \E p \in dom : Adjacent(p, q)}
        E == [q \in dom \cup new |->
                SetMin((IF q \in dom THEN {D[q]} ELSE {})
                       \cup {D[p] + StepCost(p, q) :
                                p \in {r \in dom : Adjacent(r, q)}})]
    IN  IF E = D THEN D ELSE LeastCosts(E)

MinCost == LeastCosts([p \in {start} |-> 0])[goal]

Returned == pc \in {"returned", "done"}

(* C1: on a grid where some 8-connected route of non-wall cells leads from *)
(* the start to the goal, the search returns a non-empty path whose first  *)
(* cell is the start and whose last cell is the goal.                      *)
C1_ReachableGoalFound ==
    (Returned /\ Reachable)
        => /\ path # <<>>
           /\ path[1] = start
           /\ path[Len(path)] = goal

(* C2: a non-empty returned path is a shortest-cost route: no route of     *)
(* non-wall cells from the start to the goal costs less (1 per orthogonal  *)
(* step, sqrt(2) per diagonal step).                                       *)
C2_PathIsShortest ==
    (Returned /\ path # <<>>) => PathCost(path) <= MinCost

(* A diagonal arrival at the goal, with the rest of the grid open: routes  *)
(* other than the returned one exist.                                      *)
C2_Witness ==
    /\ pc = "done"
    /\ path # <<>>
    /\ PathCost(path) = 1414
    /\ Cardinality(Closure({start})) > 2

(* C3: when the goal is unreachable from the start, the search returns the *)
(* empty path by the normal way out of the loop (no walk over parents is   *)
(* begun) and the coin total is 0.                                         *)
C3_UnreachableEmpty ==
    ~ Reachable
        => /\ pc # "walk"
           /\ Returned => path = <<>>
           /\ pc = "done" => collected_coins = 0

(* The start is fully enclosed by walls and the grid holds a coin.         *)
C3_Witness ==
    /\ pc = "done"
    /\ ~ Reachable
    /\ \A q \in Pos : Adjacent(start, q) => Terrain(q) = "X"
    /\ \E q \in Pos : Adjacent(start, q)
    /\ path = <<>>

(* C4: a non-empty returned path starts at the start cell, ends at the     *)
(* goal cell, steps between distinct 8-neighbours, holds no cell twice and *)
(* holds no wall.                                                          *)
C4_PathWellFormed ==
    (Returned /\ path # <<>>)
        => /\ path[1] = start
           /\ path[Len(path)] = goal
           /\ \A k \in 1 .. Len(path) - 1 :
                 path[k] \in Pos /\ path[k + 1] \in Pos
                 /\ Adjacent(path[k], path[k + 1])
           /\ \A k, l \in 1 .. Len(path) : k # l => path[k] # path[l]
           /\ \A k \in 1 .. Len(path) : Terrain(path[k]) # "X"

C4_Witness ==
    /\ pc = "returned"
    /\ Len(path) = 2
    /\ \E q \in Pos : Adjacent(start, q) /\ Terrain(q) = "X"

DigitTokens == <<"1", "2", "3", "4", "5", "6", "7", "8", "9">>

(* d times the number of places of the path whose terrain is the digit d,  *)
(* summed over the digits 1 .. n.                                          *)
RECURSIVE DigitTotal(_)
DigitTotal(n) ==
    IF n = 0 THEN 0
    ELSE n * Cardinality({k \in 1 .. Len(path) :
                             Terrain(path[k]) = DigitTokens[n]})
         + DigitTotal(n - 1)

(* C5: the coin total is the sum of the values of the digit terrains of    *)
(* the cells on the returned path; other terrains add 0 and cells off the  *)
(* path add nothing.                                                       *)
C5_CoinTotal ==
    pc = "done" => collected_coins = DigitTotal(Len(DigitTokens))

(* A path was returned on a grid that holds a coin off the path.           *)
C5_Witness ==
    /\ pc = "done"
    /\ path # <<>>
    /\ \E q \in Pos : Terrain(q) \in Digits
    /\ collected_coins = 0

(* The grid of scenario A: rows 'S..', '.X.', '..G'.                       *)
ScenarioA ==
    /\ w = 3
    /\ h = 3
    /\ \A p \in Pos :
          Terrain(p) = (IF p = <<0, 0>> THEN "S"
                        ELSE IF p = <<1, 1>> THEN "X"
                        ELSE IF p = <<2, 2>> THEN "G"
                        ELSE ".")

(* C6: on the grid 'S..', '.X.', '..G' the search routes around the wall   *)
(* and returns a path of 5 cells from the start to the goal.               *)
C6_ScenarioA ==
    (ScenarioA /\ Returned)
        => /\ Len(path) = 5
           /\ path[1] = start
           /\ path[Len(path)] = goal

(* C7: along a returned path, the g of each cell minus the g of the cell   *)
(* before it is the distance between the two cells, the step into the goal *)
(* included.                                                               *)
C7_StepCostIsDistance ==
    (Returned /\ path # <<>>)
        => \A k \in 1 .. Len(path) - 1 :
              maze[path[k + 1]].g - maze[path[k]].g
                = StepCost(path[k], path[k + 1])

(* The measure of what is left to do, compared lexicographically:          *)
(*   1. the phases still to come;                                          *)
(*   2. the cells neither visited nor under expansion;                     *)
(*   3. the entries of the open list whose cell is visited or under        *)
(*      expansion;                                                         *)
(*   4. in the for loop, the neighbours left, plus one; in the walk over   *)
(*      the parents, the cells not yet put on the path, plus one.          *)
PhaseRank ==
    CASE pc = "load" -> 5
      [] pc = "call" -> 4
      [] pc \in {"while", "for"} -> 3
      [] pc = "walk" -> 2
      [] pc = "returned" -> 1
      [] pc = "done" -> 0

UnderExpansion(p) == pc = "for" /\ p = current

Pending == Cardinality({p \in Pos : ~ maze[p].is_visited
                                     /\ ~ UnderExpansion(p)})

Stale == Cardinality({e \in open_list : \/ maze[e[3]].is_visited
                                        \/ UnderExpansion(e[3])})

StepRank ==
    CASE pc = "for" -> Len(nbrs) + 1
      [] pc = "walk" -> Cardinality(Pos) + 1 - Len(path)
                        + (IF cell = None THEN 0 ELSE 1)
      [] OTHER -> 0

Variant == <<PhaseRank, Pending, Stale, StepRank>>

RECURSIVE LexLess(_, _)
LexLess(a, b) ==
    /\ a # <<>>
    /\ \/ Head(a) < Head(b)
       \/ Head(a) = Head(b) /\ LexLess(Tail(a), Tail(b))

(* A step is possible: the for loop has a neighbour left to examine (the   *)
(* guard of Examine), or one of the other steps is enabled.                *)
CanStep ==
    \/ pc = "for" /\ nbrs # <<>>
    \/ ENABLED (Load \/ Start \/ Pop \/ MarkVisited \/ WalkParent
                \/ ReturnPath \/ ReturnEmpty \/ CollectCoins)

(* C8: the search terminates: the loop returns a path or the empty path,   *)
(* and the walk over the parents ends. Every step makes the measure, a     *)
(* tuple of naturals, smaller in the lexicographic order, and a step is    *)
(* possible in every state but the final one, in which the path has been   *)
(* returned.                                                               *)
C8_Terminates ==
    /\ [][LexLess(Variant', Variant)]_vars
    /\ [](\A k \in 1 .. Len(Variant) : Variant[k] >= 0)
    /\ [](pc # "done" => CanStep)

(* The loop ended on the goal and the walk over the parents ended.         *)
C8_Witness ==
    /\ pc = "returned"
    /\ path # <<>>
    /\ cell = None
    /\ open_list = {}

(* The 3x3 block around (i, j).                                            *)
Block(i, j) == (i - 1 .. i + 1) \X (j - 1 .. j + 1)

(* C9: neighbors(i, j, w, h) lists exactly the positions of the 3x3 block  *)
(* around (i, j), other than (i, j), with 0 <= row < h and 0 <= column < w, *)
(* each once; checked for the positions of the grid and of the ring        *)
(* around it.                                                              *)
C9_Neighbors ==
    (pc = "for" /\ nbrs = neighbors(current[1], current[2], w, h))
        => \A i \in -1 .. h : \A j \in -1 .. w :
              LET r == neighbors(i, j, w, h)
              IN  /\ {r[k] : k \in 1 .. Len(r)}
                       = {p \in Block(i, j) \ {<<i, j>>} :
                             /\ 0 <= p[1] /\ p[1] < h
                             /\ 0 <= p[2] /\ p[2] < w}
                  /\ \A k, l \in 1 .. Len(r) : k # l => r[k] # r[l]

(* The neighbours of an interior cell were just enumerated: all 8.         *)
C9_Witness ==
    /\ pc = "for"
    /\ Len(nbrs) = 8
    /\ nbrs = neighbors(current[1], current[2], w, h)

(* ----------------------- The state of the cells ------------------------ *)

(* C11: once the cell grid is allocated and before the loop has taken a    *)
(* step, every cell is undiscovered: neither open nor visited.             *)
C11_AllocatedUndiscovered ==
    pc = "call"
        => \A p \in Pos : ~ maze[p].is_open /\ ~ maze[p].is_visited

(* The search has not met the cell: its g is the sentinel still.           *)
NeverDiscovered(p) == maze[p].g = Fixed(-1)

(* C12: in the expansion of current, a neighbour that is neither the goal  *)
(* nor a wall and was not discovered before gets g = current.g + the       *)
(* distance of the step, h = the distance to the goal, f = g + h, parent   *)
(* = current, is marked open and is put in the frontier under the next     *)
(* key.                                                                    *)
C12_DiscoverNeighbour ==
    [][(/\ pc = "for"
        /\ nbrs # <<>>
        /\ ~ IsGoal(Head(nbrs)[1], Head(nbrs)[2])
        /\ ~ IsWall(Head(nbrs))
        /\ NeverDiscovered(Head(nbrs)))
          => LET n == Head(nbrs)
             IN  /\ maze'[n].g = maze[current].g + StepCost(current, n)
                 /\ maze'[n].h = distance(n[1], n[2], goal[1], goal[2])
                 /\ maze'[n].f = maze'[n].g + maze'[n].h
                 /\ maze'[n].parent = current
                 /\ maze'[n].is_open
                 /\ key' = key + 1
                 /\ <<maze'[n].f, key', n>> \in open_list']_vars

InFrontier(p) == \E e \in open_list : e[3] = p

(* C13: at the start of every iteration of the loop, a cell is open if and *)
(* only if it has an entry in the frontier.                                *)
C13_OpenIffInFrontier ==
    pc = "while" => \A p \in Pos : maze[p].is_open <=> InFrontier(p)

(* A step that removes an entry of p from the frontier.                    *)
Removes(p) == pc = "while" /\ pc' = "for" /\ current' = p

(* A step that puts an entry of p in the frontier.                         *)
Inserts(p) == \E e \in open_list' \ open_list : e[3] = p

(* C14: the state of a cell is monotonic: no cell is open and visited at   *)
(* once, and a visited cell stays visited, is not marked open again, is    *)
(* not put in the frontier again and is not removed from it (expanded)     *)
(* again.                                                                  *)
C14_VisitedIsFinal ==
    /\ [](\A p \in Pos : ~ (maze[p].is_open /\ maze[p].is_visited))
    /\ [][\A p \in Pos :
             maze[p].is_visited
                => /\ maze'[p].is_visited
                   /\ ~ maze'[p].is_open
                   /\ ~ Inserts(p)
                   /\ ~ Removes(p)]_vars

(* A cell was expanded and marked visited, and the loop went on.           *)
C14_Witness ==
    /\ pc = "while"
    /\ \E p \in Pos : maze[p].is_visited /\ ~ maze[p].is_open

(* The least cost of a route of non-wall cells from the start to p.        *)
LeastCost(p) == LeastCosts([q \in {start} |-> 0])[p]

(* C15: every visited cell has g equal to the least cost of a route of     *)
(* non-wall cells from the start to it, and its g and parent do not change *)
(* once it is visited.                                                     *)
C15_ClosedCellFinal ==
    /\ [](\A p \in Pos : maze[p].is_visited => maze[p].g = LeastCost(p))
    /\ [][\A p \in Pos :
             maze[p].is_visited
                => /\ maze'[p].g = maze[p].g
                   /\ maze'[p].parent = maze[p].parent]_vars

(* A cell is visited and steps were taken since.                           *)
C15_Witness ==
    /\ pc = "done"
    /\ \E p \in Pos : maze[p].is_visited

Discovered(p) == maze[p].is_open \/ maze[p].is_visited

(* C16: after the initialisation every discovered cell (open or visited,   *)
(* the start included) has f = g + h, with h the straight-line distance to *)
(* the goal, and its entries in the frontier have that f as priority.      *)
C16_PriorityIsF ==
    pc \notin {"load", "call"}
        => \A p \in Pos :
              Discovered(p)
                 => /\ maze[p].h = distance(p[1], p[2], goal[1], goal[2])
                    /\ maze[p].f = maze[p].g + maze[p].h
                    /\ \A e \in open_list : e[3] = p => e[1] = maze[p].f

(* Following the parents from p reaches the start, through none of the     *)
(* cells of seen and through no cell twice.                                *)
RECURSIVE ReachesStart(_, _)
ReachesStart(p, seen) ==
    IF p = None \/ p \in seen THEN FALSE
    ELSE IF p = start THEN TRUE
    ELSE ReachesStart(maze[p].parent, seen \cup {p})

(* C17: the parent links are acyclic: the start has no parent, and from    *)
(* any cell that has a parent, following the parents reaches the start     *)
(* without meeting a cell twice.                                           *)
C17_ParentsAcyclic ==
    pc # "load"
        => /\ maze[start].parent = None
           /\ \A p \in Pos :
                 maze[p].parent # None => ReachesStart(maze[p].parent, {p})

(* The goal was given its parent.                                          *)
C17_Witness ==
    /\ pc = "walk"
    /\ maze[goal].parent = start
    /\ cell = goal

(* The valid neighbours of p, as a set.                                    *)
NeighbourSet(p) ==
    LET r == neighbors(p[1], p[2], w, h) IN {r[k] : k \in 1 .. Len(r)}

(* C18: the search returns in the first expansion of a cell that has the   *)
(* goal among its valid neighbours (no such expansion runs to its end and  *)
(* no such cell is visited), the walk starts with the parent of the goal   *)
(* set to that cell, and the goal is never in the frontier, never removed  *)
(* from it and never visited.                                              *)
C18_EarlyExit ==
    pc # "load"
        => /\ ~ InFrontier(goal)
           /\ current # goal
           /\ ~ maze[goal].is_visited
           /\ \A p \in Pos :
                 goal \in NeighbourSet(p)
                    => /\ ~ maze[p].is_visited
                       /\ ~ (UnderExpansion(p) /\ nbrs = <<>>)
           /\ (pc = "walk" \/ (Returned /\ path # <<>>))
                 => /\ goal \in NeighbourSet(current)
                    /\ maze[goal].parent = current
                    /\ ~ maze[current].is_visited

(* The goal was met as a neighbour of the cell under expansion and the     *)
(* search returned.                                                        *)
C18_Witness ==
    /\ pc = "returned"
    /\ path # <<>>
    /\ maze[goal].parent = current
    /\ open_list = {}

====
